---- MODULE Spec2Model ----
(***************************************************************************)
(* CPU process scheduler simulator (main.cpp): the menu loop of main, the  *)
(* random process generator and the scheduling functions                   *)
(* first_come_first_served, shortest_job_first, priority_scheduling,       *)
(* round_robin and multilevel_queue_scheduling.  C++ vectors are           *)
(* sequences; the C++ index k is the TLA+ index k + 1.  round_robin run    *)
(* from the menu advances one loop iteration per step; the other functions *)
(* are one step each.                                                      *)
(***************************************************************************)
EXTENDS Integers, Sequences, FiniteSets, TLC

\* ------------------------------------------------------------ configuration
\* Bounds of the model: the batch size and the largest burst time are scaled
\* down from the program's 10 and 20.
MaxProcs == 2
MaxBurst == 9

QUANTUM == 4
DEFAULT_PROCESS_COUNT == MaxProcs
MAX_BURST_TIME == MaxBurst
MIN_BURST_TIME == 1
MAX_PRIORITY == 3
MIN_PRIORITY == 1
NUM_QUEUES == 3

VARIABLES
    processes,  \* main: std::vector<Process> processes (the current batch)
    gen,        \* generateProcesses: the local vector being filled
    pc,         \* position of main: "start", "menu", "invalid", "rr", "gen",
                \* "pause", "exit"
    choice,     \* main: int choice, as last read from std::cin
    rr,         \* round_robin: its locals while the sweep loop runs
    result,     \* the table and averages the last strategy printed
    quantum,    \* the value the program was built with for QUANTUM (line 9)
    slices      \* history: the CPU slices the running round_robin has granted

vars == <<processes, gen, pc, choice, rr, result, quantum, slices>>

\* ------------------------------------------------------------------ helpers
RECURSIVE SumSeq(_)
SumSeq(s) == IF s = <<>> THEN 0 ELSE Head(s) + SumSeq(Tail(s))

Zeros(n) == [k \in 1..n |-> 0]

\* class Process
Process(pid, burst_time, priority) ==
    [pid |-> pid, burst_time |-> burst_time, priority |-> priority]

BurstTimes(procs) == [k \in 1..Len(procs) |-> procs[k].burst_time]

\* total_burst_time whose loop skips the first process
total_burst_time_SkipsFirst(procs) ==
    SumSeq([k \in 1..(Len(procs) - 1) |-> procs[k + 1].burst_time])

\* double total_burst_time(processes)
total_burst_time(procs) == SumSeq(BurstTimes(procs))

NoChoice == "unset"
NoLocals == [fn |-> "none"]
NoResult == [algo |-> "none"]

\* ------------------------------------------------- the metrics of a schedule
\* WaitingLoop adding the burst of the process itself (index i for i - 1)
WaitingLoop_OwnBurst(ordered) ==
    LET w[k \in 1..Len(ordered)] ==
            IF k = 1 THEN 0 ELSE w[k - 1] + ordered[k].burst_time
    IN  [k \in 1..Len(ordered) |-> w[k]]

\* for (i = 1; i < N; i++) waiting_time[i] = waiting_time[i-1] + p[i-1].burst_time
WaitingLoop(ordered) ==
    LET w[k \in 1..Len(ordered)] ==
            IF k = 1 THEN 0 ELSE w[k - 1] + ordered[k - 1].burst_time
    IN  [k \in 1..Len(ordered) |-> w[k]]

\* TurnaroundLoop adding the burst of the first row to every row
TurnaroundLoop_FirstBurst(ordered, waiting_time) ==
    [k \in 1..Len(ordered) |-> waiting_time[k] + ordered[1].burst_time]

\* for (i = 0; i < N; i++) turnaround_time[i] = waiting_time[i] + p[i].burst_time
TurnaroundLoop(ordered, waiting_time) ==
    [k \in 1..Len(ordered) |-> waiting_time[k] + ordered[k].burst_time]

\* Average dividing in int arithmetic
Average_IntegerDivision(xs) == [num |-> SumSeq(xs) \div Len(xs), den |-> 1]

\* avg = 0; for (...) avg += x[i]; avg /= N   (kept as the exact quotient num/den)
Average(xs) == [num |-> SumSeq(xs), den |-> Len(xs)]

\* The table a strategy prints for the rows `ordered` and the averages it returns.
Report(algo, ordered, waiting_time) ==
    LET turnaround_time == TurnaroundLoop(ordered, waiting_time)
    IN  [algo |-> algo,
         rows |-> ordered,
         waiting_time |-> waiting_time,
         turnaround_time |-> turnaround_time,
         avg_waiting_time |-> Average(waiting_time),
         avg_turnaround_time |-> Average(turnaround_time)]

\* first_come_first_served walking the batch from its end
first_come_first_served_Reversed(procs) ==
    LET reversed == [k \in 1..Len(procs) |-> procs[Len(procs) + 1 - k]]
    IN  Report("fcfs", reversed, WaitingLoop(reversed))

\* double first_come_first_served(processes)
first_come_first_served(procs) == Report("fcfs", procs, WaitingLoop(procs))

\* ------------------------------------------------------------------ std::sort
\* std::sort(first, last, comp) leaves a permutation of the range in which no
\* element is ordered by comp before an element that precedes it; the relative
\* order of elements that comp does not order is unspecified, so every such
\* permutation is an outcome.  comp is the table of the comparison's values.
Elements(seq) == {seq[k] : k \in 1..Len(seq)}

Perms(seq) ==
    {[k \in 1..Len(seq) |-> seq[p[k]]] : p \in Permutations(1..Len(seq))}

StdSort(seq, comp) ==
    {s \in Perms(seq) :
        \A a, b \in 1..Len(seq) : a < b => ~comp[s[b], s[a]]}

\* compareByBurstTime with the comparison turned round
compareByBurstTime_Descending(a, b) == a.burst_time > b.burst_time

\* bool compareByBurstTime(a, b)
compareByBurstTime(a, b) == a.burst_time < b.burst_time

\* the lambda of priority_scheduling comparing burst times
compareByPriority_ByBurst(a, b) == a.burst_time < b.burst_time

\* the lambda of priority_scheduling
compareByPriority(a, b) == a.priority < b.priority

\* double shortest_job_first(processes): the reports it can print
shortest_job_first(procs) ==
    {Report("sjf", processes_copy, WaitingLoop(processes_copy)) :
        processes_copy \in
            StdSort(procs, [a, b \in Elements(procs) |-> compareByBurstTime(a, b)])}

\* double priority_scheduling(processes): the reports it can print
priority_scheduling(procs) ==
    {Report("priority", processes_copy, WaitingLoop(processes_copy)) :
        processes_copy \in
            StdSort(procs, [a, b \in Elements(procs) |-> compareByPriority(a, b)])}

\* -------------------------------------------------------------- round_robin
\* The locals of round_robin on entry to the first sweep (done = true, i = 0).
RRInit(procs) ==
    [waiting_time |-> Zeros(Len(procs)),
     completion_time |-> Zeros(Len(procs)),
     remaining_burst_time |-> BurstTimes(procs),
     time |-> 0,
     i |-> 0,
     done |-> TRUE]

\* RRSkipped with the clock ticking for the finished process
RRSkipped_Ticks(procs, L) == [L EXCEPT !.i = @ + 1, !.time = @ + 1]

\* remaining_burst_time[i] == 0: the process is skipped.
RRSkipped(procs, L) == [L EXCEPT !.i = @ + 1]

\* RRQuantum that leaves i where it is: the preempted process runs again at once
RRQuantum_KeepsTurn(procs, L) ==
    [L EXCEPT !.done = FALSE,
              !.time = @ + quantum,
              !.remaining_burst_time[L.i + 1] = @ - quantum]

\* remaining_burst_time[i] > quantum: the process runs one quantum.
RRQuantum(procs, L) ==
    [L EXCEPT !.done = FALSE,
              !.time = @ + quantum,
              !.remaining_burst_time[L.i + 1] = @ - quantum,
              !.i = @ + 1]

\* RRComplete subtracting the remaining burst in place of the original one
RRComplete_MinusRemaining(procs, L) ==
    LET t == L.time + L.remaining_burst_time[L.i + 1]
    IN  [L EXCEPT !.done = FALSE,
                  !.time = t,
                  !.waiting_time[L.i + 1] = t - L.remaining_burst_time[L.i + 1],
                  !.completion_time[L.i + 1] = t,
                  !.remaining_burst_time[L.i + 1] = 0,
                  !.i = @ + 1]

\* RRComplete charging a whole quantum for the last slice
RRComplete_WholeQuantum(procs, L) ==
    LET t == L.time + quantum
    IN  [L EXCEPT !.done = FALSE,
                  !.time = t,
                  !.waiting_time[L.i + 1] = t - procs[L.i + 1].burst_time,
                  !.completion_time[L.i + 1] = t,
                  !.remaining_burst_time[L.i + 1] = 0,
                  !.i = @ + 1]

\* 0 < remaining_burst_time[i] <= QUANTUM: the process runs to completion.
RRComplete(procs, L) ==
    LET t == L.time + L.remaining_burst_time[L.i + 1]
    IN  [L EXCEPT !.done = FALSE,
                  !.time = t,
                  !.waiting_time[L.i + 1] = t - procs[L.i + 1].burst_time,
                  !.completion_time[L.i + 1] = t,
                  !.remaining_burst_time[L.i + 1] = 0,
                  !.i = @ + 1]

\* One iteration of the for loop of a sweep.
RRBody(procs, L) ==
    IF L.remaining_burst_time[L.i + 1] > 0
    THEN IF L.remaining_burst_time[L.i + 1] > quantum
         THEN RRQuantum(procs, L)
         ELSE RRComplete(procs, L)
    ELSE RRSkipped(procs, L)

\* RRNextSweep without done = true at the top of the while loop
RRNextSweep_LeavesDone(L) == [L EXCEPT !.i = 0]

\* if (done == true) break; otherwise the next sweep starts.
RRNextSweep(L) == [L EXCEPT !.done = TRUE, !.i = 0]

\* What round_robin prints after the loop.
RRReport(procs, L) ==
    Report("rr", procs, L.waiting_time) @@ [completion_time |-> L.completion_time]

\* The sweep loop run to its break.
RECURSIVE RRRun(_, _)
RRRun(procs, L) ==
    IF L.i < Len(procs) THEN RRRun(procs, RRBody(procs, L))
    ELSE IF L.done THEN L
    ELSE RRRun(procs, RRNextSweep(L))

\* double round_robin(processes)
round_robin(procs) == RRReport(procs, RRRun(procs, RRInit(procs)))

\* ---------------------------------------------- multilevel_queue_scheduling
\* doubles are kept as exact quotients
RatAdd(a, b) == [num |-> a.num * b.den + b.num * a.den, den |-> a.den * b.den]
RatInt(n) == [num |-> n, den |-> 1]
RatDiv(a, n) == [num |-> a.num, den |-> a.den * n]

\* QueueOf whose distribution loop stops one process early
QueueOf_StopsEarly(procs, queue_number, j) ==
    LET idx == SelectSeq([k \in 1..(Len(procs) - 1) |-> k],
                         LAMBDA k : queue_number[k] = j)
    IN  [m \in 1..Len(idx) |-> procs[idx[m]]]

\* queues[j] after the distribution loop, when process k drew queue_number[k]
QueueOf(procs, queue_number, j) ==
    LET idx == SelectSeq([k \in 1..Len(procs) |-> k],
                         LAMBDA k : queue_number[k] = j)
    IN  [m \in 1..Len(idx) |-> procs[idx[m]]]

\* double multilevel_queue_scheduling(processes): the summaries it can print;
\* rand() % NUM_QUEUES is any queue number.
multilevel_queue_scheduling(procs) ==
    UNION {
      LET queues == [j \in 0..(NUM_QUEUES - 1) |-> QueueOf(procs, queue_number, j)]
          report_0 == IF queues[0] # <<>> THEN round_robin(queues[0]) ELSE NoResult
          avg_waiting_time_0 ==
              IF queues[0] # <<>> THEN report_0.avg_waiting_time ELSE RatInt(0)
          total_burst_time_0 == total_burst_time(queues[0])
          report_1 ==
              IF queues[1] # <<>> THEN first_come_first_served(queues[1]) ELSE NoResult
          avg_waiting_time_1 ==
              IF queues[1] # <<>>
              THEN RatAdd(report_1.avg_waiting_time, RatInt(total_burst_time_0))
              ELSE RatInt(0)
          total_burst_time_1 == total_burst_time(queues[1])
          reports_2 ==
              IF queues[2] # <<>> THEN shortest_job_first(queues[2]) ELSE {NoResult}
      IN  { LET avg_waiting_time_2 ==
                    IF queues[2] # <<>>
                    THEN RatAdd(report_2.avg_waiting_time,
                                RatInt(total_burst_time_0 + total_burst_time_1))
                    ELSE RatInt(0)
                total_waiting_time ==
                    RatAdd(RatAdd(avg_waiting_time_0, avg_waiting_time_1),
                           avg_waiting_time_2)
            IN  [algo |-> "mlq",
                 queues |-> queues,
                 reports |-> <<report_0, report_1, report_2>>,
                 avg_waiting_time_0 |-> avg_waiting_time_0,
                 avg_waiting_time_1 |-> avg_waiting_time_1,
                 avg_waiting_time_2 |-> avg_waiting_time_2,
                 avg_waiting_time |-> RatDiv(total_waiting_time, NUM_QUEUES)]
            : report_2 \in reports_2 }
      : queue_number \in
            {draw \in [1..Len(procs) -> 0..(NUM_QUEUES - 1)] :
                \* round_robin(queues[0]) never returns with a quantum of 0
                quantum >= 1 \/ QueueOf(procs, draw, 0) = <<>>} }

\* ------------------------------------------------------------------ actions
\* GenStep without the + MIN_BURST_TIME
GenStep_NoMinimum ==
    /\ pc \in {"start", "gen"}
    /\ Len(gen) < DEFAULT_PROCESS_COUNT
    /\ \E burst_time \in 0..(MAX_BURST_TIME - MIN_BURST_TIME),
          priority \in MIN_PRIORITY..MAX_PRIORITY :
          gen' = Append(gen, Process(Len(gen), burst_time, priority))
    /\ UNCHANGED <<processes, pc, choice, rr, result>>
    /\ UNCHANGED <<quantum, slices>>

\* generateProcesses, one iteration of its loop: rand() % range + min is any
\* value of the range.
GenStep ==
    /\ pc \in {"start", "gen"}
    /\ Len(gen) < DEFAULT_PROCESS_COUNT
    /\ \E burst_time \in MIN_BURST_TIME..MAX_BURST_TIME,
          priority \in MIN_PRIORITY..MAX_PRIORITY :
          gen' = Append(gen, Process(Len(gen), burst_time, priority))
    /\ UNCHANGED <<processes, pc, choice, rr, result>>
    /\ UNCHANGED <<quantum, slices>>

\* generateProcesses returns and main stores the batch: before the first menu
\* (line 458) or as the end of case 9 (line 511).
GenReturn ==
    /\ pc \in {"start", "gen"}
    /\ Len(gen) = DEFAULT_PROCESS_COUNT
    /\ processes' = gen
    /\ gen' = <<>>
    /\ pc' = IF pc = "start" THEN "menu" ELSE "pause"
    /\ result' = IF pc = "start" THEN NoResult ELSE [algo |-> "generated"]
    /\ UNCHANGED <<choice, rr>>
    /\ UNCHANGED <<quantum, slices>>

\* std::cin >> choice reads a number that the validation rejects: the message
\* is printed.
InvalidNumber ==
    /\ pc = "menu"
    /\ \E c \in {-1, 6, 7, 10} :
          /\ c = 6 \/ c = 7 \/ c < 0 \/ c > 9
          /\ choice' = c
    /\ result' = [algo |-> "invalid"]
    /\ pc' = "invalid"
    /\ UNCHANGED <<processes, gen, rr>>
    /\ UNCHANGED <<quantum, slices>>

\* The do-while condition holds after a rejected number: the menu is printed
\* again and the rejected value of choice is overwritten by the next read.
MenuAgain ==
    /\ pc = "invalid"
    /\ pc' = "menu"
    /\ choice' = NoChoice
    /\ result' = NoResult
    /\ UNCHANGED <<processes, gen, rr>>
    /\ UNCHANGED <<quantum, slices>>

\* std::cin >> choice fails on text that is no number: since C++11 the failed
\* extraction stores 0 in choice; the message is printed and cin.clear() resets
\* the fail bit, so the do-while condition is evaluated with fail() false and
\* choice == 0, the loop ends and case 0 returns from main.
InputFails ==
    /\ pc = "menu"
    /\ choice' = 0
    /\ result' = [algo |-> "goodbye", invalid |-> TRUE]
    /\ pc' = "exit"
    /\ UNCHANGED <<processes, gen, rr>>
    /\ UNCHANGED <<quantum, slices>>

\* case 1
ChooseFCFS ==
    /\ pc = "menu"
    /\ choice' = 1
    /\ result' = first_come_first_served(processes)
    /\ pc' = "pause"
    /\ UNCHANGED <<processes, gen, rr>>
    /\ UNCHANGED <<quantum, slices>>

\* case 2 with the sort applied to the batch itself instead of a copy
ChooseSJF_SortsInPlace ==
    /\ pc = "menu"
    /\ choice' = 2
    /\ result' \in shortest_job_first(processes)
    /\ processes' = result'.rows
    /\ pc' = "pause"
    /\ UNCHANGED <<gen, rr>>
    /\ UNCHANGED <<quantum, slices>>

\* case 2
ChooseSJF ==
    /\ pc = "menu"
    /\ choice' = 2
    /\ result' \in shortest_job_first(processes)
    /\ pc' = "pause"
    /\ UNCHANGED <<processes, gen, rr>>
    /\ UNCHANGED <<quantum, slices>>

\* case 3
ChoosePriority ==
    /\ pc = "menu"
    /\ choice' = 3
    /\ result' \in priority_scheduling(processes)
    /\ pc' = "pause"
    /\ UNCHANGED <<processes, gen, rr>>
    /\ UNCHANGED <<quantum, slices>>

\* case 4: round_robin is entered, its locals are initialised
ChooseRR ==
    /\ pc = "menu"
    /\ choice' = 4
    /\ rr' = RRInit(processes)
    /\ pc' = "rr"
    /\ result' = NoResult
    /\ UNCHANGED <<processes, gen>>
    /\ slices' = <<>>
    /\ UNCHANGED quantum

\* round_robin: one iteration of the for loop
RRIteration ==
    /\ pc = "rr"
    /\ rr.i < Len(processes)
    /\ rr' = RRBody(processes, rr)
    /\ UNCHANGED <<processes, gen, pc, choice, result>>
    /\ slices' = IF rr'.time > rr.time
                 THEN Append(slices, [proc |-> rr.i + 1, len |-> rr'.time - rr.time])
                 ELSE slices
    /\ UNCHANGED quantum

\* round_robin: the sweep ended with done == false
RRSweepAgain ==
    /\ pc = "rr"
    /\ rr.i = Len(processes)
    /\ ~rr.done
    /\ rr' = RRNextSweep(rr)
    /\ UNCHANGED <<processes, gen, pc, choice, result>>
    /\ UNCHANGED <<quantum, slices>>

\* round_robin: the sweep ended with done == true; break, print, return
RRReturn ==
    /\ pc = "rr"
    /\ rr.i = Len(processes)
    /\ rr.done
    /\ result' = RRReport(processes, rr)
    /\ rr' = NoLocals
    /\ pc' = "pause"
    /\ UNCHANGED <<processes, gen, choice>>
    /\ slices' = <<>>
    /\ UNCHANGED quantum

\* case 5
ChooseMultilevel ==
    /\ pc = "menu"
    /\ choice' = 5
    /\ result' \in multilevel_queue_scheduling(processes)
    /\ pc' = "pause"
    /\ UNCHANGED <<processes, gen, rr>>
    /\ UNCHANGED <<quantum, slices>>

\* case 8: displayProcesses
ChooseDisplay ==
    /\ pc = "menu"
    /\ choice' = 8
    /\ result' = [algo |-> "display", rows |-> processes]
    /\ pc' = "pause"
    /\ UNCHANGED <<processes, gen, rr>>
    /\ UNCHANGED <<quantum, slices>>

\* case 9: processes.clear(), then generateProcesses starts
ChooseGenerate ==
    /\ pc = "menu"
    /\ choice' = 9
    /\ processes' = <<>>
    /\ gen' = <<>>
    /\ pc' = "gen"
    /\ result' = NoResult
    /\ UNCHANGED rr
    /\ UNCHANGED <<quantum, slices>>

\* case 0: return 0
ChooseExit ==
    /\ pc = "menu"
    /\ choice' = 0
    /\ result' = [algo |-> "goodbye", invalid |-> FALSE]
    /\ pc' = "exit"
    /\ UNCHANGED <<processes, gen, rr>>
    /\ UNCHANGED <<quantum, slices>>

\* "Press Enter to continue...": the locals of the case are gone and the menu
\* loop starts its next iteration with a fresh choice.
Continue ==
    /\ pc = "pause"
    /\ pc' = "menu"
    /\ choice' = NoChoice
    /\ result' = NoResult
    /\ UNCHANGED <<processes, gen, rr>>
    /\ UNCHANGED <<quantum, slices>>

\* main up to line 458: generateProcesses has been entered.
Init ==
    /\ processes = <<>>
    /\ gen = <<>>
    /\ pc = "start"
    /\ choice = NoChoice
    /\ rr = NoLocals
    /\ result = NoResult
    /\ quantum = QUANTUM
    /\ slices = <<>>

Next ==
    \/ GenStep
    \/ GenReturn
    \/ InvalidNumber
    \/ MenuAgain
    \/ InputFails
    \/ ChooseFCFS
    \/ ChooseSJF
    \/ ChoosePriority
    \/ ChooseRR
    \/ RRIteration
    \/ RRSweepAgain
    \/ RRReturn
    \/ ChooseMultilevel
    \/ ChooseDisplay
    \/ ChooseGenerate
    \/ ChooseExit
    \/ Continue

Spec == Init /\ [][Next]_vars

\* What generateProcesses(n) can return.
Batches(n) ==
    {[k \in 1..n |-> Process(k - 1, draw[k][1], draw[k][2])] :
        draw \in [1..n -> (MIN_BURST_TIME..MAX_BURST_TIME)
                              \X (MIN_PRIORITY..MAX_PRIORITY)]}

\* The menu entered with a batch of any size up to DEFAULT_PROCESS_COUNT, the
\* empty batch included: the strategies as functions of any vector.
InitAnyBatch ==
    /\ processes \in UNION {Batches(n) : n \in 0..DEFAULT_PROCESS_COUNT}
    /\ gen = <<>>
    /\ pc = "menu"
    /\ choice = NoChoice
    /\ rr = NoLocals
    /\ result = NoResult
    /\ quantum = QUANTUM
    /\ slices = <<>>

SpecAnyBatch == InitAnyBatch /\ [][Next]_vars

\* The program built with const int QUANTUM = 0 as well as with its own value:
\* nothing in the source checks the configuration.
InitConfig ==
    /\ processes = <<>>
    /\ gen = <<>>
    /\ pc = "start"
    /\ choice = NoChoice
    /\ rr = NoLocals
    /\ result = NoResult
    /\ quantum \in {0, QUANTUM}
    /\ slices = <<>>

SpecConfig == InitConfig /\ [][Next]_vars

\* round_robin alone, called from the menu on any batch; the loop, once
\* entered, keeps executing.
NextRoundRobin ==
    \/ ChooseRR
    \/ RRIteration
    \/ RRSweepAgain
    \/ RRReturn
    \/ Continue

SpecRoundRobin ==
    /\ InitAnyBatch
    /\ [][NextRoundRobin]_vars
    /\ WF_vars(RRIteration)
    /\ WF_vars(RRSweepAgain)
    /\ WF_vars(RRReturn)

\* ------------------------------------------------------- what the claims use
Range(seq) == {seq[k] : k \in 1..Len(seq)}

\* b holds the elements of a, each as often as a does
IsPermutation(a, b) ==
    /\ Len(a) = Len(b)
    /\ \A x \in Range(a) \cup Range(b) :
          Cardinality({k \in 1..Len(a) : a[k] = x})
              = Cardinality({k \in 1..Len(b) : b[k] = x})

\* the position of process x in the batch `input`
PosIn(input, x) == CHOOSE k \in 1..Len(input) : input[k] = x

\* Every run of a strategy whose table is on the screen, as <<input, report>>:
\* the run a menu choice started on the batch, or the runs of the multilevel
\* scheduler on its non-empty queues.
Runs ==
    IF result.algo \in {"fcfs", "sjf", "priority", "rr"}
    THEN {<<processes, result>>}
    ELSE IF result.algo = "mlq"
    THEN {<<result.queues[j], result.reports[j + 1]>> :
             j \in {q \in 0..(NUM_QUEUES - 1) : result.queues[q] # <<>>}}
    ELSE {}

RunsOf(algos) == {run \in Runs : run[2].algo \in algos}

\* C1: FCFS is order-preserving: row i of its table is input process i, and
\* the first process waits 0.
C1_FcfsKeepsArrivalOrder ==
    \A run \in RunsOf({"fcfs"}) :
        /\ Len(run[1]) >= 1
        /\ run[2].rows = run[1]
        /\ run[2].waiting_time[1] = 0

\* C1 witness: FCFS has printed a batch whose arrival order is not the order
\* of burst times nor of priorities.
C1_Witness ==
    /\ pc = "pause"
    /\ result.algo = "fcfs"
    /\ Len(processes) >= 2
    /\ processes[1].burst_time > processes[2].burst_time
    /\ processes[1].priority > processes[2].priority
    /\ result.rows[1].pid = 0

C3_TurnaroundIsWaitPlusBurst ==
    \A run \in RunsOf({"fcfs", "sjf", "priority", "rr"}) :
        \A k \in 1..Len(run[2].rows) :
            /\ run[2].rows[k] \in Range(processes)
            /\ run[2].turnaround_time[k]
                  = run[2].waiting_time[k]
                      + processes[run[2].rows[k].pid + 1].burst_time

\* C3 witness: Round-Robin has printed a batch in which a preempted process
\* waited.
C3_Witness ==
    /\ result.algo = "rr"
    /\ \E k \in 1..Len(result.rows) :
          /\ result.rows[k].burst_time > QUANTUM
          /\ result.waiting_time[k] > 0
          /\ result.turnaround_time[k] > result.rows[k].burst_time

\* C4: the SJF execution order is a permutation of its input batch and is
\* non-decreasing in burst_time.
C4_SjfSortedPermutation ==
    \A run \in RunsOf({"sjf"}) :
        /\ IsPermutation(run[1], run[2].rows)
        /\ \A k \in 1..(Len(run[2].rows) - 1) :
              run[2].rows[k].burst_time <= run[2].rows[k + 1].burst_time

\* C4 witness: SJF has moved a shorter job ahead of a longer one that
\* arrived first.
C4_Witness ==
    /\ result.algo = "sjf"
    /\ Len(processes) >= 2
    /\ processes[1].burst_time > processes[2].burst_time
    /\ result.rows[1] = processes[2]

\* C5: SJF is stable on ties: two processes of equal burst_time appear in the
\* SJF execution order in their relative arrival order.
C5_SjfStableOnTies ==
    \A run \in RunsOf({"sjf"}) :
        \A a, b \in 1..Len(run[2].rows) :
            (a < b /\ run[2].rows[a].burst_time = run[2].rows[b].burst_time)
                => PosIn(run[1], run[2].rows[a]) < PosIn(run[1], run[2].rows[b])

\* C6: the Priority execution order is a permutation of its input batch and
\* is non-decreasing in priority value.
C6_PrioritySortedPermutation ==
    \A run \in RunsOf({"priority"}) :
        /\ IsPermutation(run[1], run[2].rows)
        /\ \A k \in 1..(Len(run[2].rows) - 1) :
              run[2].rows[k].priority <= run[2].rows[k + 1].priority

\* C6 witness: Priority has moved a process of lower priority value ahead of
\* one that arrived first and has the shorter burst.
C6_Witness ==
    /\ result.algo = "priority"
    /\ Len(processes) >= 2
    /\ processes[1].priority > processes[2].priority
    /\ processes[1].burst_time < processes[2].burst_time
    /\ result.rows[1] = processes[2]

\* C7: Priority scheduling is stable on ties: two processes of equal priority
\* appear in the Priority execution order in their arrival order.
C7_PriorityStableOnTies ==
    \A run \in RunsOf({"priority"}) :
        \A a, b \in 1..Len(run[2].rows) :
            (a < b /\ run[2].rows[a].priority = run[2].rows[b].priority)
                => PosIn(run[1], run[2].rows[a]) < PosIn(run[1], run[2].rows[b])

\* CPU time the processes other than k have been given so far in round_robin
CpuGivenToOthers(procs, L, k) ==
    SumSeq([j \in 1..Len(procs) |->
               IF j = k THEN 0
               ELSE procs[j].burst_time - L.remaining_burst_time[j]])

\* C8: in Round-Robin the waiting time recorded for a process is its
\* completion time minus its original burst_time, and that is the CPU time
\* given to all other processes before it completes.
C8_RRWaitIsCompletionMinusBurst ==
    /\ pc = "rr" =>
          \A k \in 1..Len(processes) :
              rr.remaining_burst_time[k] = 0 =>
                  /\ rr.waiting_time[k]
                        = rr.completion_time[k] - processes[k].burst_time
                  \* k has just run its last slice
                  /\ (rr.i = k /\ rr.completion_time[k] = rr.time) =>
                        rr.waiting_time[k] = CpuGivenToOthers(processes, rr, k)
    /\ \A run \in RunsOf({"rr"}) :
          \A k \in 1..Len(run[1]) :
              run[2].waiting_time[k]
                  = run[2].completion_time[k] - run[1][k].burst_time

\* C8 witness: a process that was preempted before has just completed while
\* another process is still unfinished.
C8_Witness ==
    /\ pc = "rr"
    /\ rr.i >= 1
    /\ processes[rr.i].burst_time > QUANTUM
    /\ rr.remaining_burst_time[rr.i] = 0
    /\ rr.completion_time[rr.i] = rr.time
    /\ rr.waiting_time[rr.i] > 0
    /\ \E j \in 1..Len(processes) : rr.remaining_burst_time[j] > 0

\* Round-Robin driven by an explicit circular ready queue, the reference of C9:
\* the head runs min(QUANTUM, remaining) and goes to the tail if unfinished.
RECURSIVE QueueRRRun(_, _)
QueueRRRun(procs, S) ==
    IF S.queue = <<>> THEN S
    ELSE LET h == Head(S.queue)
             slice == IF S.remaining[h] < QUANTUM THEN S.remaining[h] ELSE QUANTUM
             t == S.time + slice
         IN  IF S.remaining[h] - slice > 0
             THEN QueueRRRun(procs,
                      [S EXCEPT !.queue = Append(Tail(S.queue), h),
                                !.remaining[h] = @ - slice,
                                !.time = t])
             ELSE QueueRRRun(procs,
                      [S EXCEPT !.queue = Tail(S.queue),
                                !.remaining[h] = 0,
                                !.time = t,
                                !.turnaround_time[h] = t,
                                !.waiting_time[h] = t - procs[h].burst_time])

QueueRR(procs) ==
    QueueRRRun(procs,
        [queue |-> [k \in 1..Len(procs) |-> k],
         remaining |-> BurstTimes(procs),
         time |-> 0,
         waiting_time |-> Zeros(Len(procs)),
         turnaround_time |-> Zeros(Len(procs))])

\* C9: the sweep-based Round-Robin prints the waiting_time and turnaround_time
\* arrays of a Round-Robin driven by an explicit circular ready queue.
C9_RRSweepEqualsQueue ==
    \A run \in RunsOf({"rr"}) :
        /\ run[2].waiting_time = QueueRR(run[1]).waiting_time
        /\ run[2].turnaround_time = QueueRR(run[1]).turnaround_time

\* C9 witness: Round-Robin has printed a batch in which every process was
\* preempted and they needed different numbers of slices.
C9_Witness ==
    /\ result.algo = "rr"
    /\ pc = "pause"
    /\ Len(processes) >= 2
    /\ \A k \in 1..Len(processes) : processes[k].burst_time > QUANTUM
    /\ processes[1].burst_time > 2 * QUANTUM
    /\ processes[2].burst_time <= 2 * QUANTUM

MaxOf(seq) == CHOOSE m \in Range(seq) : \A x \in Range(seq) : x <= m

\* C10: in Round-Robin the process that finishes last has completion_time
\* equal to the sum of all burst times of the batch.
C10_RRLastCompletionIsTotalBurst ==
    \A run \in RunsOf({"rr"}) :
        Len(run[1]) > 0 =>
            MaxOf(run[2].completion_time) = total_burst_time(run[1])

\* C10 witness: Round-Robin has printed a batch in which the process that
\* arrived first finished last.
C10_Witness ==
    /\ result.algo = "rr"
    /\ Len(processes) >= 2
    /\ result.completion_time[1] = total_burst_time(processes)
    /\ result.completion_time[2] < result.completion_time[1]

\* the places <<queue, position>> at which process p stands in the queues
PlacesOf(queues, p) ==
    {jk \in (0..(NUM_QUEUES - 1)) \X (1..Len(processes)) :
        /\ jk[2] <= Len(queues[jk[1]])
        /\ queues[jk[1]][jk[2]] = p}

\* C11: after the queue assignment of the multilevel scheduler every process
\* of the batch stands in exactly one queue, at one position, and the queue
\* sizes add up to the batch size.
C11_MultilevelPartition ==
    result.algo = "mlq" =>
        /\ SumSeq([j \in 1..NUM_QUEUES |-> Len(result.queues[j - 1])])
              = Len(processes)
        /\ \A p \in Range(processes) :
              Cardinality(PlacesOf(result.queues, p)) = 1

\* C11 witness: the draws have put the first process in the last queue and
\* the second process in the first queue.
C11_Witness ==
    /\ result.algo = "mlq"
    /\ Len(processes) >= 2
    /\ result.queues[NUM_QUEUES - 1] = <<processes[1]>>
    /\ processes[2] \in Range(result.queues[0])

\* The term of queue j in the overall mean, as <<numerator, denominator>>:
\* the average its strategy returned plus the burst times of the queues
\* before it, or 0 for an empty queue.
QueueTerm(j) ==
    IF result.queues[j] = <<>> THEN <<0, 1>>
    ELSE LET avg == result.reports[j + 1].avg_waiting_time
             offset == SumSeq([q \in 1..j |->
                                  SumSeq(BurstTimes(result.queues[q - 1]))])
         IN  <<avg.num + offset * avg.den, avg.den>>

C14_EmptyBatchDefined ==
    \A run \in RunsOf({"fcfs", "sjf", "priority", "rr"}) :
        Len(run[1]) = 0 =>
            /\ run[2].avg_waiting_time.den # 0
            /\ run[2].avg_turnaround_time.den # 0

\* C15: an invalid configuration is rejected before any computation begins; in
\* particular Round-Robin never starts sweeping with a quantum <= 0.
C15_NoSweepWithBadQuantum == pc = "rr" => quantum >= 1

\* C16: no strategy and no display mutates the current batch; the batch changes
\* only in the generate-new-processes operation (and the generation at start).
C16_BatchNeverMutated ==
    [][processes' # processes => (pc' = "gen" \/ pc \in {"start", "gen"})]_vars

C16_Witness ==
    /\ pc = "pause"
    /\ result.algo \in {"sjf", "priority"}
    /\ result.rows # processes
    /\ Len(processes) = DEFAULT_PROCESS_COUNT

\* The reports one strategy can print for the current batch.
Outcomes(algo) ==
    CASE algo = "fcfs" -> {first_come_first_served(processes)}
      [] algo = "sjf" -> shortest_job_first(processes)
      [] algo = "priority" -> priority_scheduling(processes)
      [] algo = "rr" -> {round_robin(processes)}

\* C17: FCFS, SJF, Priority and Round-Robin are deterministic functions of the
\* batch: the report of a run is the only report the strategy can give for it,
\* so a second run on the same batch gives the same order, times and averages.
C17_StrategiesDeterministic ==
    result.algo \in {"fcfs", "sjf", "priority", "rr"} =>
        Outcomes(result.algo) = {result}

\* C18: SJF is optimal for the average waiting time: the sum of the waiting
\* times it reports is at most the sum of the waiting times of the
\* non-preemptive schedule of any permutation of its input, the FCFS order and
\* the Priority orders among them.
C18_SjfOptimal ==
    \A run \in RunsOf({"sjf"}) :
        /\ \A perm \in Perms(run[1]) :
               SumSeq(run[2].waiting_time) <= SumSeq(WaitingLoop(perm))
        /\ SumSeq(run[2].waiting_time)
               <= SumSeq(first_come_first_served(run[1]).waiting_time)
        /\ \A report \in priority_scheduling(run[1]) :
               SumSeq(run[2].waiting_time) <= SumSeq(report.waiting_time)

C18_Witness ==
    /\ result.algo = "sjf"
    /\ SumSeq(result.waiting_time)
           < SumSeq(first_come_first_served(processes).waiting_time)
    /\ \E report \in priority_scheduling(processes) :
           SumSeq(result.waiting_time) < SumSeq(report.waiting_time)

\* CPU time process q has received in the first k slices of the running
\* round_robin, and whether it still has burst left then.
GivenTo(k, q) ==
    SumSeq([j \in 1..k |-> IF slices[j].proc = q THEN slices[j].len ELSE 0])

Unfinished(k, q) == GivenTo(k, q) < processes[q].burst_time

SlicesOf(q, from, to) == {j \in from..to : slices[j].proc = q}

\* C19: Round-Robin is fair: every slice is at most the quantum; between two
\* consecutive slices of a process every other process still unfinished gets
\* exactly one slice (a finished one none), so a process runs twice in a row
\* only when all others are finished, and an unfinished process is kept
\* waiting at most (N-1) * quantum time units between its slices.
C19_RRFair ==
    pc = "rr" =>
        LET N == Len(processes)
            n == Len(slices)
            Others(p) == (1..N) \ {p}
            Gap(a, b) == SumSeq([j \in 1..(b - a - 1) |-> slices[a + j].len])
        IN  /\ \A j \in 1..n : slices[j].len >= 1 /\ slices[j].len <= quantum
            /\ \A a, b \in 1..n :
                   (/\ a < b
                    /\ slices[a].proc = slices[b].proc
                    /\ SlicesOf(slices[a].proc, a + 1, b - 1) = {})
                   => /\ \A q \in Others(slices[a].proc) :
                             Cardinality(SlicesOf(q, a + 1, b - 1))
                                 = IF Unfinished(a, q) THEN 1 ELSE 0
                      /\ Gap(a, b) <= (N - 1) * quantum
            /\ \A a \in 1..(n - 1) :
                   slices[a].proc = slices[a + 1].proc
                   => \A q \in Others(slices[a].proc) : ~Unfinished(a, q)
            /\ \A p \in 1..N :
                   Unfinished(n, p) =>
                       \A a \in 0..n :
                           SlicesOf(p, a + 1, n) = {} /\ (a = 0 \/ slices[a].proc = p)
                           => /\ \A q \in Others(p) :
                                     Cardinality(SlicesOf(q, a + 1, n)) <= 1
                              /\ Gap(a, n + 1) <= (N - 1) * quantum

C19_Witness ==
    /\ pc = "rr"
    /\ Len(slices) >= 4
    /\ slices[1].proc = slices[3].proc
    /\ slices[2].proc # slices[1].proc
    /\ slices[2].len = quantum
    /\ slices[4].proc = slices[3].proc

\* C20: Round-Robin terminates: a started round_robin reaches the sweep that
\* finds nothing left and returns; at that exit every remaining_burst_time is
\* 0, and on the way the waiting and completion time of a process are written
\* in one step only, the one that takes its remaining burst from > 0 to 0.
C20_RRTerminates ==
    /\ (pc = "rr") ~> (pc = "pause" /\ result.algo = "rr")
    /\ [][(pc = "rr" /\ pc' = "pause") =>
              \A k \in 1..Len(processes) :
                  /\ rr.remaining_burst_time[k] = 0
                  /\ result'.completion_time[k] >= processes[k].burst_time
                  /\ result'.waiting_time[k]
                         = result'.completion_time[k] - processes[k].burst_time]_vars
    /\ [][(pc = "rr" /\ pc' = "rr") =>
              \A k \in 1..Len(processes) :
                  /\ rr'.remaining_burst_time[k] <= rr.remaining_burst_time[k]
                  /\ (\/ rr'.waiting_time[k] # rr.waiting_time[k]
                      \/ rr'.completion_time[k] # rr.completion_time[k])
                     => /\ rr.remaining_burst_time[k] > 0
                        /\ rr'.remaining_burst_time[k] = 0
                  /\ (rr.remaining_burst_time[k] > 0 /\ rr'.remaining_burst_time[k] = 0)
                     => rr'.completion_time[k] = rr'.time]_vars

C20_Witness ==
    /\ pc = "pause"
    /\ result.algo = "rr"
    /\ Len(processes) >= 2
    /\ \A k \in 1..Len(processes) : processes[k].burst_time > 2 * quantum

\* C21: in Round-Robin the CPU time granted to a process over its slices is
\* its burst_time less what remains, and the whole burst_time when the loop
\* exits: every slice is min(quantum, remaining) of a process with burst
\* left, remaining_burst_time is never negative, and the report carries the
\* burst_time fields of the batch unchanged.
C21_RRGrantsExactlyBurst ==
    /\ pc = "rr" =>
           LET n == Len(slices)
           IN  /\ \A k \in 1..Len(processes) :
                      /\ rr.remaining_burst_time[k] >= 0
                      /\ GivenTo(n, k)
                             = processes[k].burst_time - rr.remaining_burst_time[k]
                      /\ (rr.i = Len(processes) /\ rr.done)
                             => GivenTo(n, k) = processes[k].burst_time
               /\ \A j \in 1..n :
                      LET q == slices[j].proc
                          left == processes[q].burst_time - GivenTo(j - 1, q)
                      IN  /\ left > 0
                          /\ slices[j].len = IF left > quantum THEN quantum ELSE left
    /\ result.algo = "rr" => result.rows = processes

C21_Witness ==
    /\ pc = "rr"
    /\ rr.i = Len(processes)
    /\ rr.done
    /\ Len(processes) >= 2
    /\ \E j \in 1..Len(slices) : slices[j].len = quantum
    /\ \E j \in 1..Len(slices) : slices[j].len < quantum
    /\ processes[1].burst_time # processes[2].burst_time

\* C22: whenever the menu, a strategy or the pause after an operation is
\* reached, after any number of generate-new-processes requests, the current
\* batch holds exactly DEFAULT_PROCESS_COUNT processes with ids 0..count-1 in
\* sequence order, every burst_time in MIN_BURST_TIME..MAX_BURST_TIME (so >= 1)
\* and every priority in MIN_PRIORITY..MAX_PRIORITY.
C22_BatchWellFormed ==
    pc \notin {"start", "gen"} =>
        /\ Len(processes) = DEFAULT_PROCESS_COUNT
        /\ \A k \in 1..Len(processes) :
               /\ processes[k].pid = k - 1
               /\ processes[k].burst_time >= MIN_BURST_TIME
               /\ processes[k].burst_time <= MAX_BURST_TIME
               /\ processes[k].burst_time >= 1
               /\ processes[k].priority >= MIN_PRIORITY
               /\ processes[k].priority <= MAX_PRIORITY
        /\ \A k, m \in 1..Len(processes) :
               k # m => processes[k].pid # processes[m].pid

C22_Witness ==
    /\ pc = "pause"
    /\ result.algo = "generated"
    /\ Len(processes) >= 2
    /\ processes[1].burst_time = MAX_BURST_TIME
    /\ processes[1].priority = MIN_PRIORITY
    /\ processes[2].burst_time = MIN_BURST_TIME
    /\ processes[2].priority = MAX_PRIORITY

\* C23: an invalid menu input is reported as invalid and the menu is prompted
\* again, without a strategy run, a new batch or an exit: the invalid message
\* is followed by the menu, and the program exits only on the input 0.
C23_InvalidInputReprompts ==
    /\ result.algo = "invalid" => pc = "invalid"
    /\ pc = "exit" => ~result.invalid

\* CPU time the processes have consumed according to the locals L.
Consumed(procs, L) ==
    SumSeq([k \in 1..Len(procs) |-> procs[k].burst_time - L.remaining_burst_time[k]])

\* C24: Round-Robin clock invariant: in every state of the sweep loop time is
\* the sum over the processes of burst_time - remaining_burst_time, with
\* 0 <= remaining_burst_time <= burst_time; in every step of the loop the clock
\* does not decrease and advances by exactly what the processes consumed.
C24_RRClock ==
    /\ [](pc = "rr" =>
            /\ rr.time = Consumed(processes, rr)
            /\ \A k \in 1..Len(processes) :
                   /\ rr.remaining_burst_time[k] >= 0
                   /\ rr.remaining_burst_time[k] <= processes[k].burst_time)
    /\ [][(pc = "rr" /\ pc' = "rr") =>
              /\ rr'.time >= rr.time
              /\ rr'.time - rr.time
                     = Consumed(processes, rr') - Consumed(processes, rr)]_vars

C24_Witness ==
    /\ pc = "rr"
    /\ Len(processes) >= 2
    /\ rr.time > quantum
    /\ rr.remaining_burst_time[1] > 0
    /\ rr.remaining_burst_time[1] < processes[1].burst_time
    /\ rr.remaining_burst_time[2] = 0
    /\ rr.i = 0

\* C25: Round-Robin degenerates to FCFS without preemption: on a batch whose
\* burst_time values are all <= quantum, round_robin reports the waiting_time
\* and turnaround_time arrays, and the averages, of first_come_first_served.
C25_RRIsFcfsWithoutPreemption ==
    \A run \in RunsOf({"rr"}) :
        (\A k \in 1..Len(run[1]) : run[1][k].burst_time <= quantum) =>
            LET fcfs == first_come_first_served(run[1])
            IN  /\ run[2].waiting_time = fcfs.waiting_time
                /\ run[2].turnaround_time = fcfs.turnaround_time
                /\ run[2].avg_waiting_time = fcfs.avg_waiting_time
                /\ run[2].avg_turnaround_time = fcfs.avg_turnaround_time
                /\ run[2].rows = fcfs.rows

C25_Witness ==
    /\ pc = "pause"
    /\ result.algo = "rr"
    /\ Len(processes) >= 2
    /\ \A k \in 1..Len(processes) : processes[k].burst_time <= quantum
    /\ processes[1].burst_time < processes[2].burst_time
    /\ result.waiting_time[2] = processes[1].burst_time

====
